---- MODULE Spec2Model ----
(***************************************************************************)
(* Model of scripts/todo.py: a command-line to-do manager that keeps its   *)
(* tasks in one JSON file.  Every invocation is a process of its own that  *)
(* parses its command line (main), loads the whole file (load), applies    *)
(* one command (cmd_add, cmd_list, cmd_update, cmd_delete) and, for a      *)
(* mutation, writes the whole file back (save).                            *)
(***************************************************************************)
EXTENDS Integers, Sequences, FiniteSets, TLC

\* ------------------------------------------------------------------ bounds
MaxOps == 3          \* invocations started in one behaviour
MaxClock == 3        \* last clock tick
TicksPerSecond == 2  \* clock ticks per second of now_iso's resolution

Procs == {"p1", "p2"}

\* ------------------------------------------------- optional values (None)
None == <<>>
Some(v) == <<v>>

\* Python truthiness of an optional string: neither None nor "".
Truthy(o) == o # None /\ o[1] # ""

\* Python's `o or d`, for a default d that is the falsy value of o's type.
OrElse(o, d) == IF o = None \/ o[1] = d THEN d ELSE o[1]

\* ------------------------------------------------------------ input sets
Ids == {"0a1b2c3d", "deadbeef"}
Choices == {"pending", "in_progress", "done"}

Argv(c, i, t, d, s, v, l, st) ==
    [command |-> c, id |-> i, title |-> t, desc |-> d, subtasks |-> s,
     deliverable |-> v, deadline |-> l, status |-> st]

NoArgv == Argv("", None, None, None, None, None, None, None)

AddArgvs ==
    { Argv("add", None, None, None, None, None, None, None),
      Argv("add", None, Some(""), None, None, None, None, None),
      Argv("add", None, Some("t1"), None, None, None, None, None),
      Argv("add", None, Some("t1"), Some("d1"), Some(<<"s1", "s2">>),
           Some("v1"), Some("2026-12-31"), Some("in_progress")),
      Argv("add", None, Some("t1"), None, None, None, None, Some("bogus")) }

ListArgvs ==
    { Argv("list", None, None, None, None, None, None, st) :
        st \in {None, Some("pending"), Some("done"), Some("bogus")} }

UpdateFields ==
    { <<None, None, None, None, None, None>>,
      <<None, None, None, None, None, Some("done")>>,
      <<Some("t2"), None, None, None, None, None>>,
      <<Some(""), None, None, None, None, None>>,
      <<None, Some("d2"), None, None, None, None>>,
      <<None, None, Some(<<"s3">>), None, None, None>>,
      <<None, None, None, Some("v2"), None, None>>,
      <<None, None, None, None, Some("2027-01-01"), None>>,
      <<None, Some(""), Some(<<>>), Some(""), Some(""), None>>,
      <<None, None, None, None, None, Some("bogus")>> }

UpdateArgvs ==
    { Argv("update", Some(i), u[1], u[2], u[3], u[4], u[5], u[6]) :
        i \in Ids, u \in UpdateFields }
    \cup { Argv("update", None, None, None, None, None, None, Some("done")) }

DeleteArgvs ==
    { Argv("delete", i, None, None, None, None, None, None) :
        i \in {None} \cup {Some(x) : x \in Ids} }

Argvs == AddArgvs \cup ListArgvs \cup UpdateArgvs \cup DeleteArgvs

RaceArgvs ==
    { Argv("add", None, Some("t1"), None, None, None, None, None),
      Argv("update", Some("0a1b2c3d"), None, None, None, None, None, Some("done")),
      Argv("update", Some("0a1b2c3d"), Some("t2"), None, None, None, None, None),
      Argv("delete", Some("0a1b2c3d"), None, None, None, None, None, None),
      Argv("delete", Some("deadbeef"), None, None, None, None, None, None) }

\* ------------------------------------------------------------------ state
VARIABLES file, clock, ops, pc, argv, args, loaded, shown, exitCode

vars == <<file, clock, ops, pc, argv, args, loaded, shown, exitCode>>

\* ------------------------------------------------------- pure operations
load(f) == IF f.exists THEN f.todos ELSE <<>>

\* save that keeps the tasks another writer stored since the load.
save_merge(f, todos) ==
    [exists |-> TRUE,
     todos |-> todos \o SelectSeq(f.todos,
                  LAMBDA t : \A i \in 1..Len(todos) : todos[i].id # t.id)]

save(f, todos) == [exists |-> TRUE, todos |-> todos]

now_iso(c) == c \div TicksPerSecond

\* argparse without choices= on --status.
ParseArgs_noChoices(a) ==
    LET dflt(o, d) == IF o = None THEN Some(d) ELSE o
    IN  CASE a.command = "add" ->
               [ok |-> a.title # None,
                ns |-> [a EXCEPT !.desc = dflt(a.desc, ""),
                                 !.subtasks = dflt(a.subtasks, <<>>),
                                 !.deliverable = dflt(a.deliverable, ""),
                                 !.deadline = dflt(a.deadline, ""),
                                 !.status = dflt(a.status, "pending")]]
          [] a.command = "list" -> [ok |-> TRUE, ns |-> a]
          [] a.command = "update" -> [ok |-> a.id # None, ns |-> a]
          [] a.command = "delete" -> [ok |-> a.id # None, ns |-> a]

\* argparse: required options, choices and defaults of each subparser.
ParseArgs(a) ==
    LET statusOk == a.status = None \/ a.status[1] \in Choices
        dflt(o, d) == IF o = None THEN Some(d) ELSE o
    IN  CASE a.command = "add" ->
               [ok |-> a.title # None /\ statusOk,
                ns |-> [a EXCEPT !.desc = dflt(a.desc, ""),
                                 !.subtasks = dflt(a.subtasks, <<>>),
                                 !.deliverable = dflt(a.deliverable, ""),
                                 !.deadline = dflt(a.deadline, ""),
                                 !.status = dflt(a.status, "pending")]]
          [] a.command = "list" -> [ok |-> statusOk, ns |-> a]
          [] a.command = "update" -> [ok |-> a.id # None /\ statusOk, ns |-> a]
          [] a.command = "delete" -> [ok |-> a.id # None, ns |-> a]

NewTask(a, id, c1, c2) ==
    [id |-> id,
     title |-> a.title[1],
     description |-> OrElse(a.desc, ""),
     subtasks |-> OrElse(a.subtasks, <<>>),
     deliverable |-> OrElse(a.deliverable, ""),
     deadline |-> OrElse(a.deadline, ""),
     status |-> a.status[1],
     created_at |-> now_iso(c1),
     updated_at |-> now_iso(c2)]

\* list that ignores --status.
ListFilter_all(todos, st) == todos

ListFilter(todos, st) ==
    IF Truthy(st) THEN SelectSeq(todos, LAMBDA t : t.status = st[1]) ELSE todos

\* The loop variable outlives the loop: with no match the last task is taken.
FindFirst_fallthrough(todos, id) ==
    IF \E i \in 1..Len(todos) : todos[i].id = id
    THEN CHOOSE i \in 1..Len(todos) :
            todos[i].id = id /\ \A j \in 1..(i - 1) : todos[j].id # id
    ELSE Len(todos)

\* Index of the task the loop of cmd_update stops at, 0 when it runs out.
FindFirst(todos, id) ==
    IF \E i \in 1..Len(todos) : todos[i].id = id
    THEN CHOOSE i \in 1..Len(todos) :
            todos[i].id = id /\ \A j \in 1..(i - 1) : todos[j].id # id
    ELSE 0

\* update that writes `args.desc or ""` as cmd_add does.
UpdateTask_descOr(t, a, c) ==
    [t EXCEPT !.title = IF Truthy(a.title) THEN a.title[1] ELSE @,
              !.description = OrElse(a.desc, ""),
              !.subtasks = IF a.subtasks # None THEN a.subtasks[1] ELSE @,
              !.deliverable = IF a.deliverable # None THEN a.deliverable[1] ELSE @,
              !.deadline = IF a.deadline # None THEN a.deadline[1] ELSE @,
              !.status = IF Truthy(a.status) THEN a.status[1] ELSE @,
              !.updated_at = now_iso(c)]

\* update that forgets to refresh updated_at.
UpdateTask_noRefresh(t, a, c) ==
    [t EXCEPT !.title = IF Truthy(a.title) THEN a.title[1] ELSE @,
              !.description = IF a.desc # None THEN a.desc[1] ELSE @,
              !.subtasks = IF a.subtasks # None THEN a.subtasks[1] ELSE @,
              !.deliverable = IF a.deliverable # None THEN a.deliverable[1] ELSE @,
              !.deadline = IF a.deadline # None THEN a.deadline[1] ELSE @,
              !.status = IF Truthy(a.status) THEN a.status[1] ELSE @]

UpdateTask(t, a, c) ==
    [t EXCEPT !.title = IF Truthy(a.title) THEN a.title[1] ELSE @,
              !.description = IF a.desc # None THEN a.desc[1] ELSE @,
              !.subtasks = IF a.subtasks # None THEN a.subtasks[1] ELSE @,
              !.deliverable = IF a.deliverable # None THEN a.deliverable[1] ELSE @,
              !.deadline = IF a.deadline # None THEN a.deadline[1] ELSE @,
              !.status = IF Truthy(a.status) THEN a.status[1] ELSE @,
              !.updated_at = now_iso(c)]

DeleteFilter(todos, id) == SelectSeq(todos, LAMBDA t : t.id # id)

\* ------------------------------------------------------------------- init
Init ==
    /\ file \in {[exists |-> FALSE, todos |-> <<>>], [exists |-> TRUE, todos |-> <<>>]}
    /\ clock = 0
    /\ ops = 0
    /\ pc = [p \in Procs |-> "idle"]
    /\ argv = [p \in Procs |-> NoArgv]
    /\ args = [p \in Procs |-> NoArgv]
    /\ loaded = [p \in Procs |-> None]
    /\ shown = [p \in Procs |-> <<>>]
    /\ exitCode = [p \in Procs |-> 0]

\* ---------------------------------------------------------------- actions
\* A process starts and parses its command line; a usage error ends it.
main(p, a) ==
    /\ pc[p] = "idle"
    /\ ops < MaxOps
    /\ ops' = ops + 1
    /\ argv' = [argv EXCEPT ![p] = a]
    /\ IF ParseArgs(a).ok
       THEN /\ pc' = [pc EXCEPT ![p] = "parsed"]
            /\ args' = [args EXCEPT ![p] = ParseArgs(a).ns]
            /\ exitCode' = exitCode
       ELSE /\ pc' = [pc EXCEPT ![p] = "done"]
            /\ args' = args
            /\ exitCode' = [exitCode EXCEPT ![p] = 2]
    /\ UNCHANGED <<file, clock, loaded, shown>>

\* The first statement of every command: todos = load(args.file).
cmd_load(p) ==
    /\ pc[p] = "parsed"
    /\ loaded' = [loaded EXCEPT ![p] = Some(load(file))]
    /\ pc' = [pc EXCEPT ![p] = "loaded"]
    /\ UNCHANGED <<file, clock, ops, argv, args, shown, exitCode>>

cmd_add(p) ==
    /\ pc[p] = "loaded"
    /\ args[p].command = "add"
    /\ \E id \in Ids, d \in 0..1 :
         /\ clock + d <= MaxClock
         /\ LET todos == Append(loaded[p][1], NewTask(args[p], id, clock, clock + d))
            IN  /\ file' = save(file, todos)
                /\ shown' = [shown EXCEPT ![p] = todos]
         /\ clock' = clock + d
    /\ exitCode' = [exitCode EXCEPT ![p] = 0]
    /\ pc' = [pc EXCEPT ![p] = "done"]
    /\ UNCHANGED <<ops, argv, args, loaded>>

cmd_list(p) ==
    /\ pc[p] = "loaded"
    /\ args[p].command = "list"
    /\ shown' = [shown EXCEPT ![p] = ListFilter(loaded[p][1], args[p].status)]
    /\ exitCode' = [exitCode EXCEPT ![p] = 0]
    /\ pc' = [pc EXCEPT ![p] = "done"]
    /\ UNCHANGED <<file, clock, ops, argv, args, loaded>>

cmd_update(p) ==
    /\ pc[p] = "loaded"
    /\ args[p].command = "update"
    /\ LET old == loaded[p][1]
           i == FindFirst(old, args[p].id[1])
       IN  IF i # 0
           THEN LET todos == [old EXCEPT ![i] = UpdateTask(old[i], args[p], clock)]
                IN  /\ file' = save(file, todos)
                    /\ shown' = [shown EXCEPT ![p] = todos]
                    /\ exitCode' = [exitCode EXCEPT ![p] = 0]
           ELSE /\ exitCode' = [exitCode EXCEPT ![p] = 1]
                /\ UNCHANGED <<file, shown>>
    /\ pc' = [pc EXCEPT ![p] = "done"]
    /\ UNCHANGED <<clock, ops, argv, args, loaded>>

cmd_delete(p) ==
    /\ pc[p] = "loaded"
    /\ args[p].command = "delete"
    /\ LET old == loaded[p][1]
           todos == DeleteFilter(old, args[p].id[1])
       IN  IF Len(todos) = Len(old)
           THEN /\ exitCode' = [exitCode EXCEPT ![p] = 1]
                /\ UNCHANGED <<file, shown>>
           ELSE /\ file' = save(file, todos)
                /\ shown' = [shown EXCEPT ![p] = todos]
                /\ exitCode' = [exitCode EXCEPT ![p] = 0]
    /\ pc' = [pc EXCEPT ![p] = "done"]
    /\ UNCHANGED <<clock, ops, argv, args, loaded>>

\* The process is gone; nothing of it survives but the file.
Exit(p) ==
    /\ pc[p] = "done"
    /\ pc' = [pc EXCEPT ![p] = "idle"]
    /\ argv' = [argv EXCEPT ![p] = NoArgv]
    /\ args' = [args EXCEPT ![p] = NoArgv]
    /\ loaded' = [loaded EXCEPT ![p] = None]
    /\ shown' = [shown EXCEPT ![p] = <<>>]
    /\ exitCode' = [exitCode EXCEPT ![p] = 0]
    /\ UNCHANGED <<file, clock, ops>>

Tick ==
    /\ clock < MaxClock
    /\ clock' = clock + 1
    /\ UNCHANGED <<file, ops, pc, argv, args, loaded, shown, exitCode>>

\* One invocation at a time.
Next ==
    \/ \E a \in Argvs : main("p1", a)
    \/ cmd_load("p1")
    \/ cmd_add("p1")
    \/ cmd_list("p1")
    \/ cmd_update("p1")
    \/ cmd_delete("p1")
    \/ Exit("p1")
    \/ Tick

Spec == Init /\ [][Next]_vars

\* Two invocations against the same file, interleaved at load and save.
NextRace ==
    \/ \E p \in Procs, a \in RaceArgvs : main(p, a)
    \/ \E p \in Procs : cmd_load(p)
    \/ \E p \in Procs : cmd_add(p)
    \/ \E p \in Procs : cmd_update(p)
    \/ \E p \in Procs : cmd_delete(p)
    \/ \E p \in Procs : Exit(p)
    \/ Tick

SpecRace == Init /\ [][NextRace]_vars

TypeOK ==
    /\ file.exists \in BOOLEAN
    /\ clock \in 0..MaxClock
    /\ ops \in 0..MaxOps
    /\ \A p \in Procs : pc[p] \in {"idle", "parsed", "loaded", "done"}

\* ================================================================ claims
\* Helpers of the properties below.
Stored == file.todos

HasId(todos, id) == \E i \in 1..Len(todos) : todos[i].id = id

\* t is s restricted to the positions in keep, in the order of s.
IsRestriction(t, s, keep) ==
    /\ Len(t) = Cardinality(keep)
    /\ \E f \in [1..Len(t) -> 1..Len(s)] :
         /\ \A k \in 1..Len(t) : t[k] = s[f[k]] /\ f[k] \in keep
         /\ \A k \in 1..(Len(t) - 1) : f[k] < f[k + 1]

\* p has run command c to its end and the command line was accepted.
Ran(p, c) == pc[p] = "done" /\ loaded[p] # None /\ argv[p].command = c

\* p takes the step that ends command c.
Ends(p, c) == pc[p] = "loaded" /\ pc'[p] = "done" /\ argv[p].command = c

FirstIdx(todos, id) ==
    CHOOSE i \in 1..Len(todos) : todos[i].id = id /\ \A j \in 1..(i - 1) : todos[j].id # id

\* ---------------------------------------------------------------- C1
\* C1: update or delete with an id that no stored task has leaves the
\* backing file exactly as it was and ends with exit code 1.
C1_NotFoundStep ==
    \A p \in Procs :
       /\ (Ends(p, "update") \/ Ends(p, "delete")) /\ ~HasId(load(file), argv[p].id[1])
            => file' = file /\ exitCode'[p] = 1
       /\ pc[p] = "parsed" /\ pc'[p] = "loaded" /\ argv[p].command \in {"update", "delete"}
            => file' = file

C1_NotFoundLeavesFile == [][C1_NotFoundStep]_vars

C1_Witness ==
    /\ Ran("p1", "update") /\ exitCode["p1"] = 1 /\ Len(Stored) = 2
    /\ loaded["p1"][1] = Stored

\* ---------------------------------------------------------------- C2
\* C2: a successful update keeps every field that was not supplied, never
\* changes id or created_at, and leaves every other task and the order of
\* the tasks as they were; supplying only status changes nothing but
\* status and updated_at.
C2_UpdateFrame ==
    \A p \in Procs :
       Ran(p, "update") /\ exitCode[p] = 0 =>
          LET old == loaded[p][1]
              a == argv[p]
              i == FirstIdx(old, a.id[1])
          IN  /\ Len(Stored) = Len(old)
              /\ \A j \in 1..Len(old) : j # i => Stored[j] = old[j]
              /\ Stored[i].id = old[i].id
              /\ Stored[i].created_at = old[i].created_at
              /\ a.title = None => Stored[i].title = old[i].title
              /\ a.desc = None => Stored[i].description = old[i].description
              /\ a.subtasks = None => Stored[i].subtasks = old[i].subtasks
              /\ a.deliverable = None => Stored[i].deliverable = old[i].deliverable
              /\ a.deadline = None => Stored[i].deadline = old[i].deadline
              /\ a.status = None => Stored[i].status = old[i].status
              /\ (a.title = None /\ a.desc = None /\ a.subtasks = None
                  /\ a.deliverable = None /\ a.deadline = None /\ a.status # None)
                   => Stored[i] = [old[i] EXCEPT !.status = a.status[1],
                                                 !.updated_at = Stored[i].updated_at]

C2_Witness ==
    /\ Ran("p1", "update") /\ exitCode["p1"] = 0
    /\ argv["p1"].status = Some("done") /\ argv["p1"].title = None
    /\ Len(Stored) = 2
    /\ LET i == FirstIdx(Stored, argv["p1"].id[1])
       IN  /\ Stored[i].description = "d1"
           /\ Stored[i].subtasks = <<"s1", "s2">>
           /\ Stored[i].status = "done"
           /\ loaded["p1"][1][i].status = "in_progress"

\* ---------------------------------------------------------------- C3
\* C3: no two tasks in the store file have the same id.
C3_UniqueIds ==
    \A i, j \in 1..Len(Stored) : i # j => Stored[i].id # Stored[j].id

\* ---------------------------------------------------------------- C4
\* C4: a successful delete removes exactly one task, the first one in file
\* order whose id is the given id; every other task stays, in order.
C4_DeleteExactlyOne ==
    \A p \in Procs :
       Ran(p, "delete") /\ exitCode[p] = 0 =>
          LET old == loaded[p][1]
              i == FirstIdx(old, argv[p].id[1])
          IN  /\ Len(Stored) = Len(old) - 1
              /\ Stored = SubSeq(old, 1, i - 1) \o SubSeq(old, i + 1, Len(old))

\* ---------------------------------------------------------------- C5
\* C5: list with a status filter returns exactly the tasks whose stored
\* status is the filter, in the order of the unfiltered list; without a
\* filter it returns all tasks; list never changes the backing file.
C5_ListResult ==
    \A p \in Procs :
       Ran(p, "list") =>
          LET all == loaded[p][1]
              st == argv[p].status
          IN  /\ exitCode[p] = 0
              /\ st = None => shown[p] = all
              /\ st # None =>
                   /\ \A k \in 1..Len(shown[p]) : shown[p][k].status = st[1]
                   /\ IsRestriction(shown[p], all,
                                    {i \in 1..Len(all) : all[i].status = st[1]})

C5_ListStep ==
    \A p \in Procs :
       pc'[p] # pc[p] /\ (argv[p].command = "list" \/ argv'[p].command = "list")
          => file' = file

C5_List == []C5_ListResult /\ [][C5_ListStep]_vars

C5_Witness ==
    /\ Ran("p1", "list") /\ argv["p1"].status = Some("pending")
    /\ Len(loaded["p1"][1]) = 2 /\ Len(shown["p1"]) = 1
    /\ shown["p1"][1] = loaded["p1"][1][2]
    /\ Stored = loaded["p1"][1]

\* ---------------------------------------------------------------- C6
\* C6: every stored task has a non-empty title.
C6_TitleNonEmpty ==
    \A i \in 1..Len(Stored) : Stored[i].title # ""

\* ---------------------------------------------------------------- C7
\* C7: the status of every stored task is pending, in_progress or done; a
\* task added without a status is pending; an invocation with any other
\* status value is rejected before the file is read or written.
IsBadStatus(a) == a.status # None /\ a.status[1] \notin {"pending", "in_progress", "done"}

C7_StatusState ==
    /\ \A i \in 1..Len(Stored) : Stored[i].status \in {"pending", "in_progress", "done"}
    /\ \A p \in Procs :
          /\ Ran(p, "add") /\ argv[p].status = None
               => shown[p][Len(shown[p])].status = "pending"
          /\ pc[p] # "idle" /\ IsBadStatus(argv[p])
               => pc[p] = "done" /\ loaded[p] = None /\ exitCode[p] # 0

C7_RejectStep ==
    \A p \in Procs :
       pc'[p] # pc[p] /\ (IsBadStatus(argv[p]) \/ IsBadStatus(argv'[p])) => file' = file

C7_Status == []C7_StatusState /\ [][C7_RejectStep]_vars

C7_Witness ==
    /\ pc["p1"] = "done" /\ argv["p1"] \in UpdateArgvs /\ IsBadStatus(argv["p1"])
    /\ Len(Stored) = 2
    /\ HasId(Stored, argv["p1"].id[1])
    /\ Stored[1].status = "pending" /\ Stored[2].status = "in_progress"

\* ---------------------------------------------------------------- C8
\* C8: invocations are not coordinated: a save writes the saver's loaded
\* snapshot plus its own mutation whatever the file holds by then, so when
\* two invocations load before either saves the first saver's mutation is
\* lost, and no invocation reports a failure because of it.
FromSnapshot(new, old, a) ==
    CASE a.command = "add" ->
           /\ Len(new) = Len(old) + 1
           /\ SubSeq(new, 1, Len(old)) = old
           /\ new[Len(new)].title = a.title[1]
      [] a.command = "update" ->
           /\ Len(new) = Len(old)
           /\ \E i \in 1..Len(old) :
                old[i].id = a.id[1] /\ \A j \in 1..Len(old) : j # i => new[j] = old[j]
      [] a.command = "delete" ->
           IsRestriction(new, old, {i \in 1..Len(old) : old[i].id # a.id[1]})
      [] OTHER -> FALSE

C8_SaveStep ==
    \A p \in Procs :
       pc[p] = "loaded" /\ pc'[p] = "done" /\ exitCode'[p] = 0 =>
          /\ file'.exists
          /\ file'.todos = shown'[p]
          /\ FromSnapshot(file'.todos, loaded[p][1], argv[p])
          /\ \A q \in Procs \ {p} : exitCode'[q] = exitCode[q] /\ pc'[q] = pc[q]

C8_LostAdd ==
    \A p, q \in Procs :
       (/\ p # q
        /\ Ran(p, "add") /\ Ran(q, "add")
        /\ loaded[p] = loaded[q])
          => /\ Len(Stored) = Len(loaded[p][1]) + 1
             /\ exitCode[p] = 0 /\ exitCode[q] = 0

C8_LastWriterWins == []C8_LostAdd /\ [][C8_SaveStep]_vars

C8_Witness ==
    /\ Ran("p1", "add") /\ Ran("p2", "add")
    /\ loaded["p1"] = loaded["p2"] /\ Len(loaded["p1"][1]) = 1
    /\ exitCode["p1"] = 0 /\ exitCode["p2"] = 0
    /\ Len(Stored) = 2
    /\ Stored = shown["p2"] /\ Stored # shown["p1"]

\* ---------------------------------------------------------------- C9
\* C9 (as stated): after every successful update the matched task's
\* updated_at is strictly greater than it was before the update.
C9_StrictlyGreater ==
    \A p \in Procs :
       Ran(p, "update") /\ exitCode[p] = 0 =>
          LET old == loaded[p][1]
              i == FirstIdx(old, argv[p].id[1])
          IN  Stored[i].updated_at > old[i].updated_at

\* C9 (amended): a successful update stamps updated_at with the clock's
\* current whole second; it is never smaller than before, and it is greater
\* exactly when the update runs in a later second than the previous stamp.
C9_RefreshStep ==
    \A p \in Procs :
       Ends(p, "update") /\ exitCode'[p] = 0 =>
          LET old == loaded[p][1]
              i == FirstIdx(old, argv[p].id[1])
              second == clock \div TicksPerSecond
          IN  /\ file'.todos[i].updated_at = second
              /\ file'.todos[i].updated_at >= old[i].updated_at
              /\ file'.todos[i].updated_at > old[i].updated_at
                   <=> second > old[i].updated_at

C9_UpdatedAtRefreshed == [][C9_RefreshStep]_vars

C9_Witness ==
    /\ Ran("p1", "update") /\ exitCode["p1"] = 0
    /\ LET old == loaded["p1"][1]
           i == FirstIdx(old, argv["p1"].id[1])
       IN  /\ old[i].updated_at = 0
           /\ Stored[i].updated_at = 1
           /\ Stored[i].created_at = 0

\* ---------------------------------------------------------------- C10
\* C10: every add appends exactly one new task at the end, leaves the
\* tasks stored before unchanged and in order, and gives the new task a
\* created_at equal to its updated_at.
C10_AddAppends ==
    \A p \in Procs :
       Ran(p, "add") =>
          LET old == loaded[p][1]
          IN  /\ Len(Stored) = Len(old) + 1
              /\ SubSeq(Stored, 1, Len(old)) = old
              /\ Stored[Len(Stored)].created_at = Stored[Len(Stored)].updated_at
====
